---- MODULE Spec2Model ----
(***************************************************************************)
(* Model of src/src/edlib.rs: the Rust interface edlibAlignRs over the     *)
(* native aligner edlibAlign, and the CIGAR entry point                    *)
(* edlibAlignmentToCigarRs.                                                *)
(*                                                                         *)
(* The Rust code is translated statement by statement from edlib.rs.       *)
(* The native aligner (edlibDefaultAlignConfig, edlibAlign,                *)
(* edlibFreeAlignResult) is reached through crate::bindings; it is         *)
(* modelled from sections 4.1 to 4.6 and 7 of the specification.           *)
(***************************************************************************)
EXTENDS Integers, Sequences, FiniteSets, TLC

\* ------------------------------------------------------------------------
\* Bounds of the model
\* ------------------------------------------------------------------------

\* Longest query drawn by Init.
MaxQueryLen == 2

\* Longest target drawn by Init.
MaxTargetLen == 3

\* Largest non-negative k drawn by Init.
MaxK == 2

\* First trial bound of the Bound Controller ("an initial modest bound").
InitialBound == 1

\* Longest operation sequence handed to the CIGAR entry point.
MaxOps == 3

\* ------------------------------------------------------------------------
\* Program constants and enumerations
\* ------------------------------------------------------------------------

EDLIB_STATUS_OK == 0
EDLIB_STATUS_ERROR == 1

\* enum EdlibAlignModeRs
EdlibAlignModeRs == {"EDLIB_MODE_NW", "EDLIB_MODE_SHW", "EDLIB_MODE_HW"}

\* enum EdlibAlignTaskRs
EdlibAlignTaskRs == {"EDLIB_TASK_DISTANCE", "EDLIB_TASK_LOC", "EDLIB_TASK_PATH"}

\* enum EdlibCigarFormatRs
EdlibCigarFormatRs == {"EDLIB_CIGAR_STANDARD", "EDLIB_CIGAR_EXTENDED"}

\* Edit operations, as the numbers the alignment buffer holds.
EDLIB_EDOP_MATCH == 0
EDLIB_EDOP_INSERT == 1
EDLIB_EDOP_DELETE == 2
EDLIB_EDOP_MISMATCH == 3

\* Native codes of the modes and tasks (the C enums of the bindings).
C_MODE_NW == 0
C_MODE_SHW == 1
C_MODE_HW == 2
C_TASK_DISTANCE == 0
C_TASK_LOC == 1
C_TASK_PATH == 2

\* ------------------------------------------------------------------------
\* Option<Vec<_>> and raw pointers
\* ------------------------------------------------------------------------

\* heap names the allocator that owns the vector's storage.
None == [some |-> FALSE, v |-> <<>>, heap |-> "rust"]
Some(x) == [some |-> TRUE, v |-> x, heap |-> "rust"]

NULL == [null |-> TRUE, buf |-> <<>>]
Ptr(x) == [null |-> FALSE, buf |-> x]

\* ------------------------------------------------------------------------
\* Small helpers
\* ------------------------------------------------------------------------

Min2(a, b) == IF a < b THEN a ELSE b
Min3(a, b, c) == Min2(a, Min2(b, c))
Max2(a, b) == IF a > b THEN a ELSE b

RECURSIVE SetMin(_)
SetMin(S) ==
    LET x == CHOOSE y \in S : TRUE
    IN  IF S = {x} THEN x ELSE Min2(x, SetMin(S \ {x}))

Reverse(s) == [i \in 1..Len(s) |-> s[Len(s) + 1 - i]]

\* The elements of the integer set S as an increasing sequence.
RECURSIVE Ascending(_)
Ascending(S) ==
    IF S = {} THEN <<>>
    ELSE LET x == SetMin(S) IN <<x>> \o Ascending(S \ {x})

SeqsUpTo(S, lo, hi) == UNION {[1..n -> S] : n \in lo..hi}

\* ------------------------------------------------------------------------
\* Native aligner (crate::bindings), modelled from spec.md
\* ------------------------------------------------------------------------

\* edlibDefaultAlignConfig(): k = -1, global mode, distance task, no
\* additional equalities.
edlibDefaultAlignConfig ==
    [k |-> -1, mode |-> C_MODE_NW, task |-> C_TASK_DISTANCE,
     additionalEqualities |-> NULL, additionalEqualitiesLength |-> 0]

\* Alphabet Encoder (4.1): the equality pairs the engine reads through the
\* configuration's pointer.
EqualityPairs(cfg) ==
    IF cfg.additionalEqualitiesLength > 0 /\ ~cfg.additionalEqualities.null
    THEN {cfg.additionalEqualities.buf[i] : i \in 1..cfg.additionalEqualitiesLength}
    ELSE {}

\* Alphabet Encoder (4.1): a symbol matches itself and every symbol declared
\* equal to it, in both directions, not transitively.
Matches(a, b, eqs) ==
    \/ a = b
    \/ \E p \in eqs : \/ (p.first = a /\ p.second = b)
                      \/ (p.first = b /\ p.second = a)

\* Number of distinct symbols of query and target together.
AlphabetLength(q, t) ==
    Cardinality({q[i] : i \in 1..Len(q)} \cup {t[i] : i \in 1..Len(t)})

\* A score outside the band of bound k is only known to exceed k.
Saturate(v, k) == IF v > k THEN k + 1 ELSE v

\* Mode Controller (4.4): cost of row 0 at column j (j target symbols
\* skipped before the query starts).
FirstRowCost(mode, j) == IF mode = C_MODE_HW THEN 0 ELSE j

\* DP Engine (4.2): column 0 of the score field, D[i][0] = i.
FirstColumn(m, k) == [i \in 0..m |-> Saturate(i, k)]

\* DP Engine (4.2): the column of target symbol sym from the column before.
NextColumn(prev, q, sym, top, eqs, k) ==
    LET col[i \in 0..Len(q)] ==
            IF i = 0 THEN Saturate(top, k)
            ELSE Saturate(Min3(prev[i - 1] + (IF Matches(q[i], sym, eqs) THEN 0 ELSE 1),
                               prev[i] + 1,
                               col[i - 1] + 1), k)
    IN  col

\* DP Engine (4.2): the columns 0..j of the score field, as a sequence whose
\* element j + 1 is column j.
RECURSIVE Columns(_, _, _, _, _, _)
Columns(q, t, mode, eqs, k, j) ==
    IF j = 0 THEN <<FirstColumn(Len(q), k)>>
    ELSE LET before == Columns(q, t, mode, eqs, k, j - 1)
         IN  Append(before,
                    NextColumn(before[j], q, t[j], FirstRowCost(mode, j), eqs, k))

\* Mode Controller (4.4): the target columns (1-based) eligible as the end.
EligibleColumns(mode, n) == IF mode = C_MODE_NW THEN {n} ELSE 1..n

\* DP Engine (4.2) and Location Finder (4.5): one invocation with bound k.
\* found is FALSE when the distance exceeds k; endLocations are 0-based
\* target positions in increasing order.
EngineRun(q, t, mode, eqs, k) ==
    LET m == Len(q)
        n == Len(t)
        cols == Columns(q, t, mode, eqs, k, n)
        cost == [j \in 1..n |-> cols[j + 1][m]]
        elig == EligibleColumns(mode, n)
        best == SetMin({cost[j] : j \in elig})
    IN  IF best <= k
        THEN [found |-> TRUE, editDistance |-> best,
              endLocations |-> Ascending({j - 1 : j \in {c \in elig : cost[c] = best}})]
        ELSE [found |-> FALSE, editDistance |-> -1, endLocations |-> <<>>]

\* Location Finder (4.5): the start paired with the 0-based end e, from the
\* engine run on the reversed query and the reversed target prefix.
StartOfEnd(q, t, mode, eqs, dist, e) ==
    IF mode # C_MODE_HW THEN 0
    ELSE LET back == EngineRun(Reverse(q), Reverse(SubSeq(t, 1, e + 1)),
                               C_MODE_SHW, eqs, dist)
             last == back.endLocations[Len(back.endLocations)]
         IN  e - last

\* Path Reconstructor (4.6): backtracking over the full score field D of the
\* query against the target subrange, from cell (i, j) to (0, 0); operations
\* come out end-to-start.
RECURSIVE Backtrack(_, _, _, _, _, _)
Backtrack(D, q, t, eqs, i, j) ==
    IF i = 0 /\ j = 0 THEN <<>>
    ELSE IF i > 0 /\ j > 0 /\ Matches(q[i], t[j], eqs) /\ D[j + 1][i] = D[j][i - 1]
    THEN <<EDLIB_EDOP_MATCH>> \o Backtrack(D, q, t, eqs, i - 1, j - 1)
    ELSE IF i > 0 /\ j > 0 /\ D[j + 1][i] = D[j][i - 1] + 1
    THEN <<EDLIB_EDOP_MISMATCH>> \o Backtrack(D, q, t, eqs, i - 1, j - 1)
    ELSE IF i > 0 /\ D[j + 1][i] = D[j + 1][i - 1] + 1
    THEN <<EDLIB_EDOP_DELETE>> \o Backtrack(D, q, t, eqs, i - 1, j)
    ELSE <<EDLIB_EDOP_INSERT>> \o Backtrack(D, q, t, eqs, i, j - 1)

\* AlignmentPath when the path is traced over the target from its first
\* symbol instead of from the start location.
AlignmentPathFromTargetStart(q, t, eqs, s, e) ==
    LET sub == SubSeq(t, 1, e + 1)
        big == Len(q) + Len(sub)
        D == Columns(q, sub, C_MODE_NW, eqs, big, Len(sub))
    IN  Reverse(Backtrack(D, q, sub, eqs, Len(q), Len(sub)))

\* Path Reconstructor (4.6): the forward-order operations for the target
\* subrange [s, e] (0-based, inclusive).
AlignmentPath(q, t, eqs, s, e) ==
    LET sub == SubSeq(t, s + 1, e + 1)
        big == Len(q) + Len(sub)
        D == Columns(q, sub, C_MODE_NW, eqs, big, Len(sub))
    IN  Reverse(Backtrack(D, q, sub, eqs, Len(q), Len(sub)))

\* The native result of a failed call (7, EngineError).
NativeError(q, t) ==
    [status |-> EDLIB_STATUS_ERROR, editDistance |-> -1,
     endLocations |-> NULL, startLocations |-> NULL, numLocations |-> 0,
     alignment |-> NULL, alignmentLength |-> 0, alphabetLength |-> 0]

\* The native result when the distance exceeds the bound (7, BoundExceeded).
NativeExceeded(q, t) ==
    [status |-> EDLIB_STATUS_OK, editDistance |-> -1,
     endLocations |-> NULL, startLocations |-> NULL, numLocations |-> 0,
     alignment |-> NULL, alignmentLength |-> 0,
     alphabetLength |-> AlphabetLength(q, t)]

\* The native result of a conclusive engine run: locations and path as the
\* task of the native configuration asks (4.5, 4.6, 6).
NativeFound(q, t, cfg, run) ==
    LET eqs == EqualityPairs(cfg)
        ends == run.endLocations
        starts == [i \in 1..Len(ends) |->
                      StartOfEnd(q, t, cfg.mode, eqs, run.editDistance, ends[i])]
        path == AlignmentPath(q, t, eqs, starts[1], ends[1])
    IN  [status |-> EDLIB_STATUS_OK, editDistance |-> run.editDistance,
         endLocations |-> Ptr(ends),
         startLocations |-> IF cfg.task \in {C_TASK_LOC, C_TASK_PATH}
                            THEN Ptr(starts) ELSE NULL,
         numLocations |-> Len(ends),
         alignment |-> IF cfg.task = C_TASK_PATH THEN Ptr(path) ELSE NULL,
         alignmentLength |-> IF cfg.task = C_TASK_PATH THEN Len(path) ELSE 0,
         alphabetLength |-> AlphabetLength(q, t)]

\* Bound Controller (4.3): the first trial bound of a call.
FirstBound(k) == IF k < 0 THEN InitialBound ELSE k

\* Bound Controller (4.3): whether an inconclusive run at bound kt is
\* followed by another run at the doubled bound.
Retries(k, kt, m, n) == k < 0 /\ kt <= Max2(m, n)

\* ------------------------------------------------------------------------
\* State
\* ------------------------------------------------------------------------

VARIABLES
    query,        \* edlibAlignRs argument query : &[u8]
    target,       \* edlibAlignRs argument target : &[u8]
    config_rs,    \* edlibAlignRs argument config_rs : &EdlibAlignConfigRs
    pc,           \* the statement of the running function that executes next
    config_c,     \* local config_c of edlibAlignRs
    kTrial,       \* Bound Controller: the bound of the next engine run
    runs,         \* Bound Controller: engine runs of this call so far
    res_c,        \* local res_c of edlibAlignRs: the native result
    nativeLive,   \* whether the buffers of res_c are allocated
    align_res_rs, \* local align_res_rs of edlibAlignRs
    returned,     \* the value edlibAlignRs handed back, as a one-element sequence
    trace,        \* acquire / copy / release / return events of the call, in order
    alignment,    \* edlibAlignmentToCigarRs argument alignment : &[u8]
    cigarFormat,  \* edlibAlignmentToCigarRs argument cigarFormat
    cigar,        \* the value edlibAlignmentToCigarRs handed back
    stdout        \* the lines printed so far

vars == <<query, target, config_rs, pc, config_c, kTrial, runs, res_c, nativeLive,
          align_res_rs, returned, trace, alignment, cigarFormat, cigar, stdout>>

alignVars == <<query, target, config_rs, config_c, kTrial, runs, res_c, nativeLive,
               align_res_rs, returned, trace>>

cigarVars == <<alignment, cigarFormat, cigar, stdout>>

\* ------------------------------------------------------------------------
\* edlibAlignRs
\* ------------------------------------------------------------------------

\* impl Default for EdlibAlignResultRs
EdlibAlignResultRsDefault ==
    [status |-> EDLIB_STATUS_OK, editDistance |-> 0, endLocations |-> None,
     startLocations |-> None, numLocations |-> 0, alignment |-> None,
     alignmentLength |-> 0, alphabetLength |-> 0]

\* The match on config_rs.mode.
ModeToC(mode) ==
    CASE mode = "EDLIB_MODE_NW" -> C_MODE_NW
      [] mode = "EDLIB_MODE_SHW" -> C_MODE_SHW
      [] mode = "EDLIB_MODE_HW" -> C_MODE_HW

\* KToC when the assignment is left out: k keeps its default.
KToCDefault(k) == edlibDefaultAlignConfig.k

\* config_c.k = config_rs.k as c_int
KToC(k) == k

\* The native configuration edlibAlignRs builds from config_rs: k, mode and
\* the additional equalities are set, every other field keeps the value of
\* edlibDefaultAlignConfig().
BuildConfigC(cfg) ==
    LET len == Len(cfg.additionalequalities)
    IN  [edlibDefaultAlignConfig EXCEPT
            !.k = KToC(cfg.k),
            !.mode = ModeToC(cfg.mode),
            !.additionalEqualitiesLength = len,
            !.additionalEqualities =
                IF len > 0 THEN Ptr(cfg.additionalequalities) ELSE NULL]

\* NextStep with the native result freed before it is copied.
NextStepFreeFirst(p) ==
    CASE p = "config" -> "align"
      [] p = "align" -> "free"
      [] p = "free" -> "copy"
      [] p = "copy" -> "return"
      [] p = "return" -> "done"

\* The order of the statements of edlibAlignRs: build the configuration,
\* call edlibAlign, copy the result, free the native result, return.
NextStep(p) ==
    CASE p = "config" -> "align"
      [] p = "align" -> "copy"
      [] p = "copy" -> "free"
      [] p = "free" -> "return"
      [] p = "return" -> "done"

\* HasLocations with the test always passing.
HasLocationsAlways(n) == n >= 0

\* if align_res_rs.numLocations > 0
HasLocations(n) == n > 0

\* The values of an i32, the element type of the location arrays.
I32 == (-2147483647 - 1)..2147483647

\* slice::from_raw_parts(ptr, n) read element by element into a Vec: the set
\* of outcomes, ok = FALSE being the death of the process. A read that stays
\* inside a live buffer yields the buffer's first n elements, and a read of
\* no element through a pointer that is not null yields the empty vector. A
\* null pointer is outside the contract at any length: the read of an
\* element through it kills the process, and so may the read of none. Every
\* other read is undefined: the process dies, or the read returns, an
\* element inside the live buffer as its content and a freed element or one
\* past the end as any word at all (stale contents, allocator words, another
\* buffer's data).
FromRawParts(ptr, n, live) ==
    LET dies == {[ok |-> FALSE, v |-> <<>>]}
        defined(i) == live /\ i <= Len(ptr.buf)
    IN  IF ptr.null
        THEN IF n = 0 THEN dies \cup {[ok |-> TRUE, v |-> <<>>]} ELSE dies
        ELSE IF n = 0 \/ (live /\ n <= Len(ptr.buf))
        THEN {[ok |-> TRUE, v |-> SubSeq(ptr.buf, 1, n)]}
        ELSE dies \cup {r \in [ok : {TRUE}, v : [1..n -> I32]] :
                          \A i \in 1..n : defined(i) => r.v[i] = ptr.buf[i]}

\* The fields edlibAlignRs copies unconditionally out of res_c.
CopyScalars(res) ==
    [EdlibAlignResultRsDefault EXCEPT
        !.status = res.status,
        !.editDistance = res.editDistance,
        !.numLocations = res.numLocations]

\* let mut config_c = ...; config_c.k = ...; config_c.mode = ...; ...
BuildConfig ==
    /\ pc = "config"
    /\ config_c' = BuildConfigC(config_rs)
    /\ pc' = NextStep("config")
    /\ UNCHANGED <<query, target, config_rs, kTrial, runs, res_c, nativeLive,
                   align_res_rs, returned, trace>>
    /\ UNCHANGED cigarVars

\* unsafe { edlibAlign(...) }: entry of the native call.
AlignEnter ==
    /\ pc = "align"
    /\ kTrial' = FirstBound(config_c.k)
    /\ pc' = "engine"
    /\ UNCHANGED <<query, target, config_rs, config_c, runs, res_c, nativeLive,
                   align_res_rs, returned, trace>>
    /\ UNCHANGED cigarVars

\* The native call fails (7, EngineError): it hands back a result with
\* status Error.
EngineFails ==
    /\ pc = "engine"
    /\ runs' = runs + 1
    /\ res_c' = NativeError(query, target)
    /\ nativeLive' = TRUE
    /\ trace' = Append(trace, "acquire")
    /\ pc' = NextStep("align")
    /\ UNCHANGED <<query, target, config_rs, config_c, kTrial, align_res_rs,
                   returned>>
    /\ UNCHANGED cigarVars

\* One engine run of the native call: it concludes, gives up, or is followed
\* by a run at the doubled bound.
EngineTrial ==
    /\ pc = "engine"
    /\ runs' = runs + 1
    /\ LET run == EngineRun(query, target, config_c.mode,
                            EqualityPairs(config_c), kTrial)
       IN  IF ~run.found /\ Retries(config_c.k, kTrial, Len(query), Len(target))
           THEN /\ kTrial' = 2 * kTrial
                /\ UNCHANGED <<pc, res_c, nativeLive, trace>>
           ELSE /\ res_c' = IF run.found
                            THEN NativeFound(query, target, config_c, run)
                            ELSE NativeExceeded(query, target)
                /\ nativeLive' = TRUE
                /\ trace' = Append(trace, "acquire")
                /\ pc' = NextStep("align")
                /\ UNCHANGED kTrial
    /\ UNCHANGED <<query, target, config_rs, config_c, align_res_rs, returned>>
    /\ UNCHANGED cigarVars

\* let mut align_res_rs = EdlibAlignResultRs::default(); ... the copies of
\* status, editDistance, numLocations and, under the if, of the two
\* location arrays.
CopyResult ==
    /\ pc = "copy"
    /\ LET base == CopyScalars(res_c)
           n == base.numLocations
       IN  IF HasLocations(n)
           THEN \E e \in FromRawParts(res_c.endLocations, n, nativeLive),
                   s \in FromRawParts(res_c.startLocations, n, nativeLive) :
                    IF e.ok /\ s.ok
                    THEN /\ align_res_rs' = [base EXCEPT
                                                !.endLocations = Some(e.v),
                                                !.startLocations = Some(s.v)]
                         /\ trace' = Append(trace, "copy")
                         /\ pc' = NextStep("copy")
                    ELSE /\ align_res_rs' = base
                         /\ trace' = Append(trace, "crash")
                         /\ pc' = "crashed"
           ELSE /\ align_res_rs' = base
                /\ trace' = Append(trace, "copy")
                /\ pc' = NextStep("copy")
    /\ UNCHANGED <<query, target, config_rs, config_c, kTrial, runs, res_c,
                   nativeLive, returned>>
    /\ UNCHANGED cigarVars

\* unsafe { edlibFreeAlignResult(res_c); }
FreeResult ==
    /\ pc = "free"
    /\ nativeLive' = FALSE
    /\ trace' = Append(trace, "release")
    /\ pc' = NextStep("free")
    /\ UNCHANGED <<query, target, config_rs, config_c, kTrial, runs, res_c,
                   align_res_rs, returned>>
    /\ UNCHANGED cigarVars

\* align_res_rs (the tail expression)
ReturnResult ==
    /\ pc = "return"
    /\ returned' = <<align_res_rs>>
    /\ trace' = Append(trace, "return")
    /\ pc' = NextStep("return")
    /\ UNCHANGED <<query, target, config_rs, config_c, kTrial, runs, res_c,
                   nativeLive, align_res_rs>>
    /\ UNCHANGED cigarVars

\* ------------------------------------------------------------------------
\* edlibAlignmentToCigarRs
\* ------------------------------------------------------------------------

\* The body of edlibAlignmentToCigarRs: one line is printed and the function
\* returns the unit value; there is no CIGAR text.
Unit == [some |-> FALSE, text |-> <<>>]

edlibAlignmentToCigarRs ==
    /\ pc = "cigar"
    /\ stdout' = Append(stdout, "not yet iplmeented")
    /\ cigar' = <<Unit>>
    /\ pc' = "cigar_done"
    /\ UNCHANGED <<alignment, cigarFormat>>
    /\ UNCHANGED alignVars

\* ------------------------------------------------------------------------
\* Inputs and specifications
\* ------------------------------------------------------------------------

\* The symbols of the drawn sequences ('A' and 'C').
Alphabet == {65, 67}

Queries == SeqsUpTo(Alphabet, 1, MaxQueryLen)
Targets == SeqsUpTo(Alphabet, 1, MaxTargetLen)
KValues == -1..MaxK

\* The additional equalities drawn: none, or 'A' declared equal to 'C'.
EqualityLists == {<<>>, <<[first |-> 65, second |-> 67]>>}

\* The three worked cases of the documentation, k unbounded.
KITTEN == <<75, 73, 84, 84, 69, 78>>
SITTING == <<83, 73, 84, 84, 73, 78, 71>>
AACT == <<65, 65, 67, 84>>
AACTGGC == <<65, 65, 67, 84, 71, 71, 67>>
ACT == <<65, 67, 84>>
CGACTGAC == <<67, 71, 65, 67, 84, 71, 65, 67>>

WorkedCases ==
    {[q |-> KITTEN, t |-> SITTING, mode |-> "EDLIB_MODE_NW"],
     [q |-> AACT, t |-> AACTGGC, mode |-> "EDLIB_MODE_SHW"],
     [q |-> ACT, t |-> CGACTGAC, mode |-> "EDLIB_MODE_HW"]}

\* EdlibAlignConfigRs::new
NewConfig(k, mode, task, eqs) ==
    [k |-> k, mode |-> mode, task |-> task, additionalequalities |-> eqs]

EdopValues == {EDLIB_EDOP_MATCH, EDLIB_EDOP_INSERT, EDLIB_EDOP_DELETE,
               EDLIB_EDOP_MISMATCH}

InitRest ==
    /\ kTrial = 0
    /\ runs = 0
    /\ res_c = NativeError(<<>>, <<>>)
    /\ nativeLive = FALSE
    /\ align_res_rs = EdlibAlignResultRsDefault
    /\ returned = <<>>
    /\ trace = <<>>
    /\ cigar = <<>>
    /\ stdout = <<>>

InitLocals ==
    /\ config_c = edlibDefaultAlignConfig
    /\ InitRest

\* A call of edlibAlignRs with drawn arguments.
InitAlign ==
    /\ pc = "config"
    /\ \/ /\ query \in Queries
          /\ target \in Targets
          /\ config_rs \in {NewConfig(k, mode, task, eqs) :
                               k \in KValues, mode \in EdlibAlignModeRs,
                               task \in EdlibAlignTaskRs, eqs \in EqualityLists}
       \/ \E c \in WorkedCases, task \in EdlibAlignTaskRs :
             /\ query = c.q
             /\ target = c.t
             /\ config_rs = NewConfig(-1, c.mode, task, <<>>)
    /\ alignment = <<>>
    /\ cigarFormat = "EDLIB_CIGAR_STANDARD"
    /\ InitLocals

\* A call of edlibAlignmentToCigarRs with drawn arguments.
InitCigar ==
    /\ pc = "cigar"
    /\ alignment \in SeqsUpTo(EdopValues, 0, MaxOps)
    /\ cigarFormat \in EdlibCigarFormatRs
    /\ query = <<65>>
    /\ target = <<65>>
    /\ config_rs = NewConfig(-1, "EDLIB_MODE_NW", "EDLIB_TASK_DISTANCE", <<>>)
    /\ InitLocals

Init == InitAlign

Next ==
    \/ BuildConfig
    \/ AlignEnter
    \/ EngineFails
    \/ EngineTrial
    \/ CopyResult
    \/ FreeResult
    \/ ReturnResult

Spec == Init /\ [][Next]_vars

\* A call of edlibAlignRs with negative k (the unbounded search).
InitUnbounded == InitAlign /\ config_rs.k < 0

\* The unbounded search runs to its end: no statement of the call waits for
\* anything.
SpecLive == InitUnbounded /\ [][Next]_vars /\ WF_vars(Next)

\* The configurations the native aligner accepts (6): any bound, method and
\* task, with or without additional equalities.
NativeConfigs ==
    {[edlibDefaultAlignConfig EXCEPT
         !.k = k, !.mode = mode, !.task = task,
         !.additionalEqualitiesLength = Len(eqs),
         !.additionalEqualities = IF Len(eqs) > 0 THEN Ptr(eqs) ELSE NULL] :
        k \in KValues, mode \in {C_MODE_NW, C_MODE_SHW, C_MODE_HW},
        task \in {C_TASK_DISTANCE, C_TASK_LOC, C_TASK_PATH},
        eqs \in EqualityLists}

\* A call of the native edlibAlign (crate::bindings) with drawn arguments.
InitNative ==
    /\ pc = "align"
    /\ query \in Queries
    /\ target \in Targets
    /\ config_c \in NativeConfigs
    /\ config_rs = NewConfig(-1, "EDLIB_MODE_NW", "EDLIB_TASK_DISTANCE", <<>>)
    /\ alignment = <<>>
    /\ cigarFormat = "EDLIB_CIGAR_STANDARD"
    /\ InitRest

\* The native call alone: it ends with its result in res_c.
NextNative ==
    \/ AlignEnter
    \/ EngineFails
    \/ EngineTrial

SpecNative == InitNative /\ [][NextNative]_vars

NextCigar == edlibAlignmentToCigarRs

SpecCigar == InitCigar /\ [][NextCigar]_vars

\* ------------------------------------------------------------------------
\* Reference definitions used by the properties
\* ------------------------------------------------------------------------

\* Two symbols count as equal: identical, or declared equal by a pair.
SameSymbol(a, b, pairs) ==
    \/ a = b
    \/ \E i \in 1..Len(pairs) :
          {pairs[i].first, pairs[i].second} = {a, b}

\* Minimum number of single-symbol insertions, deletions and substitutions
\* turning a[i..] into b[j..].
RECURSIVE Lev(_, _, _, _, _)
Lev(a, b, pairs, i, j) ==
    IF i > Len(a) THEN Len(b) + 1 - j
    ELSE IF j > Len(b) THEN Len(a) + 1 - i
    ELSE Min3(Lev(a, b, pairs, i + 1, j + 1)
                 + (IF SameSymbol(a[i], b[j], pairs) THEN 0 ELSE 1),
              Lev(a, b, pairs, i + 1, j) + 1,
              Lev(a, b, pairs, i, j + 1) + 1)

\* Edit distance of q to the target range [s, e) (0-based, half open).
RangeDistance(q, t, pairs, s, e) == Lev(q, SubSeq(t, s + 1, e), pairs, 1, 1)

\* The target ranges a mode lets the query align to.
FreeRanges(mode, n) ==
    CASE mode = "EDLIB_MODE_NW" -> {<<0, n>>}
      [] mode = "EDLIB_MODE_SHW" -> {<<0, e>> : e \in 0..n}
      [] mode = "EDLIB_MODE_HW" -> {r \in (0..n) \X (0..n) : r[1] <= r[2]}

\* The edit distance under a mode's rule.
TrueDistance(q, t, mode, pairs) ==
    SetMin({RangeDistance(q, t, pairs, r[1], r[2]) : r \in FreeRanges(mode, Len(t))})

\* The least cost of an alignment ending with target position j (0-based).
EndCost(q, t, mode, pairs, j) ==
    SetMin({RangeDistance(q, t, pairs, r[1], r[2]) :
               r \in {x \in FreeRanges(mode, Len(t)) : x[2] = j + 1}})

\* The target positions a mode accepts as the end of an alignment.
EligibleEnds(mode, n) == IF mode = "EDLIB_MODE_NW" THEN {n - 1} ELSE 0..(n - 1)

\* The eligible end positions whose cost is the optimum.
TrueEnds(q, t, mode, pairs) ==
    LET best == TrueDistance(q, t, mode, pairs)
    IN  {j \in EligibleEnds(mode, Len(t)) : EndCost(q, t, mode, pairs, j) = best}

StrictlyIncreasing(s) == \A i \in 1..(Len(s) - 1) : s[i] < s[i + 1]

Range(s) == {s[i] : i \in 1..Len(s)}

CountOf(s, S) == Cardinality({i \in 1..Len(s) : s[i] \in S})

\* The call of edlibAlignRs has returned a value.
Returned == returned # <<>>
Result == returned[1]
Pairs == config_rs.additionalequalities

\* The call of edlibAlignRs is over: it returned, or the process died in it.
Finished == pc \in {"done", "crashed"}

\* The native call did not report EngineError.
EngineOk == res_c.status = EDLIB_STATUS_OK

\* The distance is within the configured bound (always, for negative k).
WithinBound ==
    \/ config_rs.k < 0
    \/ TrueDistance(query, target, config_rs.mode, Pairs) <= config_rs.k

\* ------------------------------------------------------------------------
\* Properties
\* ------------------------------------------------------------------------

\* C1: edlibAlignRs returns, with status Ok and editDistance # -1, the
\* minimum number of insertions, deletions and substitutions under the
\* mode's rule (whole target for NW, free target end for SHW, free target
\* start and end for HW), in particular on every call with negative k:
\* KITTEN/SITTING NW is 3, AACT/AACTGGC SHW is 0, ACT/CGACTGAC HW is 0.
C1_DistanceIsMinimum ==
    /\ (Returned /\ Result.status = EDLIB_STATUS_OK /\ Result.editDistance # -1) =>
          Result.editDistance = TrueDistance(query, target, config_rs.mode, Pairs)
    /\ (Finished /\ EngineOk /\ config_rs.k < 0) =>
          /\ Returned
          /\ Result.status = EDLIB_STATUS_OK
          /\ Result.editDistance = TrueDistance(query, target, config_rs.mode, Pairs)
          /\ (query = KITTEN /\ target = SITTING) => Result.editDistance = 3
          /\ (query = AACT /\ target = AACTGGC) => Result.editDistance = 0
          /\ (query = ACT /\ target = CGACTGAC) => Result.editDistance = 0

\* C2: when k is non-negative and the distance under the mode exceeds k
\* (and the engine does not fail), edlibAlignRs returns status Ok,
\* editDistance -1, endLocations, startLocations and alignment all None,
\* after exactly one engine run.
C2_BoundExceeded ==
    ( /\ Finished
      /\ EngineOk
      /\ config_rs.k >= 0
      /\ TrueDistance(query, target, config_rs.mode, Pairs) > config_rs.k ) =>
        /\ Returned
        /\ Result.status = EDLIB_STATUS_OK
        /\ Result.editDistance = -1
        /\ Result.endLocations = None
        /\ Result.startLocations = None
        /\ Result.alignment = None
        /\ runs = 1

C2_Witness ==
    /\ Returned
    /\ config_rs.k = 1
    /\ TrueDistance(query, target, config_rs.mode, Pairs) = 2
    /\ Result.status = EDLIB_STATUS_OK
    /\ Result.editDistance = -1

\* C3: the task selects whether start locations are computed: with
\* EDLIB_TASK_DISTANCE the result holds the distance and the end locations
\* and startLocations is None; with EDLIB_TASK_LOC or EDLIB_TASK_PATH and a
\* found distance startLocations holds, for every end location, a start from
\* which the query aligns to the target range at the optimal distance.
C3_TaskSelectsStartLocations ==
    (Finished /\ EngineOk) =>
        /\ Returned
        /\ config_rs.task = "EDLIB_TASK_DISTANCE" =>
              /\ ~Result.startLocations.some
              /\ WithinBound => Result.endLocations.some
        /\ (config_rs.task \in {"EDLIB_TASK_LOC", "EDLIB_TASK_PATH"} /\ WithinBound) =>
              /\ Result.startLocations.some
              /\ Result.endLocations.some
              /\ Len(Result.startLocations.v) = Len(Result.endLocations.v)
              /\ \A i \in 1..Len(Result.startLocations.v) :
                    LET s == Result.startLocations.v[i]
                        e == Result.endLocations.v[i]
                    IN  /\ 0 <= s
                        /\ s <= e + 1
                        /\ RangeDistance(query, target, Pairs, s, e + 1)
                              = Result.editDistance

\* C4: with EDLIB_TASK_PATH and a found distance the returned result holds
\* the alignment and alignmentLength is its number of operations; with the
\* other two tasks the alignment is None.
C4_PathTaskReturnsAlignment ==
    /\ (Finished /\ EngineOk /\ config_rs.task = "EDLIB_TASK_PATH" /\ WithinBound) =>
          /\ Returned
          /\ Result.alignment.some
          /\ Result.alignmentLength = Len(Result.alignment.v)
    /\ (Returned /\ config_rs.task # "EDLIB_TASK_PATH") => ~Result.alignment.some

\* C5: when the distance is found, the returned endLocations lists in
\* strictly increasing order exactly the eligible target positions (the last
\* one for NW, any for SHW and HW) whose cost is the optimal distance; ACT in
\* CGACTGAC under HW has exactly one end location.
C5_EndLocationsComplete ==
    (Finished /\ EngineOk /\ WithinBound) =>
        /\ Returned
        /\ Result.endLocations.some
        /\ StrictlyIncreasing(Result.endLocations.v)
        /\ Range(Result.endLocations.v)
              = TrueEnds(query, target, config_rs.mode, Pairs)
        /\ (query = ACT /\ target = CGACTGAC) => Len(Result.endLocations.v) = 1

\* C6: with negative k the retry loop ends and the call returns one final
\* result holding the exact distance, never -1.
C6_UnboundedSearchReturnsExact ==
    (Finished /\ EngineOk /\ config_rs.k < 0) =>
        /\ Returned
        /\ Result.editDistance # -1
        /\ Result.editDistance = TrueDistance(query, target, config_rs.mode, Pairs)

\* The part of C6 that concerns the native loop alone: the trial bound only
\* grows, every bound that was retried is below max(m, n), the loop ends, and
\* the native result it hands over holds the exact distance.
NativeBoundOnlyGrows == [][kTrial' >= kTrial]_vars

NativeRetriedBoundsBelowMax ==
    (config_rs.k < 0 /\ kTrial > FirstBound(config_c.k)) =>
        kTrial < 2 * Max2(Len(query), Len(target))

NativeExactWhenUnbounded ==
    (pc = NextStep("align") /\ config_rs.k < 0 /\ EngineOk) =>
        /\ res_c.editDistance # -1
        /\ res_c.editDistance = TrueDistance(query, target, config_rs.mode, Pairs)

NativeLoopTerminates ==
    /\ NativeBoundOnlyGrows
    /\ [](NativeRetriedBoundsBelowMax /\ NativeExactWhenUnbounded)
    /\ (pc = "engine") ~> (pc # "engine")

\* C7: edlibAlignmentToCigarRs returns the run-length text of the
\* operations: runs of <count><letter> with neighbouring runs of different
\* letters, letters by format (standard M I D M, extended = I D X), counts
\* summing to the alignment length, and decoding to the operations given.
CigarLetter(op, format) ==
    CASE op = EDLIB_EDOP_MATCH ->
             IF format = "EDLIB_CIGAR_EXTENDED" THEN "=" ELSE "M"
      [] op = EDLIB_EDOP_INSERT -> "I"
      [] op = EDLIB_EDOP_DELETE -> "D"
      [] op = EDLIB_EDOP_MISMATCH ->
             IF format = "EDLIB_CIGAR_EXTENDED" THEN "X" ELSE "M"

CigarOp(letter) ==
    CASE letter = "=" -> EDLIB_EDOP_MATCH
      [] letter = "M" -> EDLIB_EDOP_MATCH
      [] letter = "I" -> EDLIB_EDOP_INSERT
      [] letter = "D" -> EDLIB_EDOP_DELETE
      [] letter = "X" -> EDLIB_EDOP_MISMATCH

RECURSIVE Expand(_)
Expand(text) ==
    IF text = <<>> THEN <<>>
    ELSE [i \in 1..text[1].count |-> text[1].letter] \o Expand(Tail(text))

RECURSIVE SumCounts(_)
SumCounts(text) ==
    IF text = <<>> THEN 0 ELSE text[1].count + SumCounts(Tail(text))

C7_CigarRoundTrip ==
    pc = "cigar_done" =>
        /\ cigar[1].some
        /\ \A i \in 1..Len(cigar[1].text) : cigar[1].text[i].count >= 1
        /\ \A i \in 1..(Len(cigar[1].text) - 1) :
              cigar[1].text[i].letter # cigar[1].text[i + 1].letter
        /\ Expand(cigar[1].text)
              = [i \in 1..Len(alignment) |-> CigarLetter(alignment[i], cigarFormat)]
        /\ SumCounts(cigar[1].text) = Len(alignment)
        /\ [i \in 1..Len(Expand(cigar[1].text)) |-> CigarOp(Expand(cigar[1].text)[i])]
              = alignment

\* The native call is over and its result is in res_c.
NativeReturned == pc = NextStep("align")

C9_LocationCountsAgree ==
    Returned =>
        /\ (Result.startLocations.some /\ Result.endLocations.some) =>
              Len(Result.startLocations.v) = Len(Result.endLocations.v)
        /\ Result.endLocations.some =>
              Len(Result.endLocations.v) = Result.numLocations
        /\ Result.startLocations.some =>
              Len(Result.startLocations.v) = Result.numLocations
        /\ Result.numLocations = 0 =>
              (~Result.endLocations.some /\ ~Result.startLocations.some)

\* A result is returned with numLocations 0 (the bound was exceeded) and
\* neither list populated.
C9_Witness ==
    /\ Returned
    /\ Result.status = EDLIB_STATUS_OK
    /\ Result.editDistance = -1
    /\ Result.numLocations = 0
    /\ Result.startLocations = None
    /\ Result.endLocations = None

\* C10: the native result is acquired once, copied before it is released,
\* released once on every path that returns (status Error included), and
\* the returned value owns all its storage.
C10_CopyBeforeRelease ==
    /\ CountOf(trace, {"acquire"}) <= 1
    /\ CountOf(trace, {"release"}) <= 1
    /\ \A i \in 1..Len(trace) :
          trace[i] = "release" => \E j \in 1..(i - 1) : trace[j] = "copy"
    /\ \A i \in 1..Len(trace) :
          trace[i] = "copy" => \A j \in 1..(i - 1) : trace[j] # "release"
    /\ Returned =>
          /\ trace = <<"acquire", "copy", "release", "return">>
          /\ ~nativeLive
          /\ Result.endLocations.heap = "rust"
          /\ Result.startLocations.heap = "rust"
          /\ Result.alignment.heap = "rust"

\* A result with status Error is returned after the native result was
\* copied and released.
C10_Witness ==
    /\ Returned
    /\ Result.status = EDLIB_STATUS_ERROR
    /\ ~nativeLive
    /\ trace = <<"acquire", "copy", "release", "return">>

====
